---- MODULE Spec2Model ----
(***************************************************************************)
(* Model of the experience graph store of Poker-Monster-Reloaded           *)
(* (src/graph.py, KnowledgeGraph), of the signature hash of src/thinker.py *)
(* and of the boundary configuration of src/main.py.                       *)
(*                                                                         *)
(* The five sqlite tables are sequences of rows in rowid (insertion)       *)
(* order.  SQL NULL / Python None is the id 0 for episode and sequence ids *)
(* and for signatures; an SQL comparison with NULL is never true (SqlEq).  *)
(* REAL division is exact: avg_reward is kept as the fraction the UPDATE   *)
(* computes (numerator and denominator), not simplified.                   *)
(***************************************************************************)
EXTENDS Integers, Sequences, FiniteSets, TLC

\* ------------------------------------------------------------------ bounds
\* Step rows over the whole life of the store.
MaxSteps == 2
\* start_new_episode calls.
MaxEpisodes == 2
\* Outcome writes by finalize_episode, over all episodes.
MaxFinalizes == 2

\* ------------------------------------------------------------ identifiers
\* Python None / SQL NULL for episode ids, sequence ids and signatures.
None == 0
\* None for a phase (current_sequence_start_phase before the first sequence).
NonePhase == "None"

PHASE_AWAITING_INPUT == "AWAITING_INPUT"
PHASE_CHOOSING_FROM_DECK_TOP2 == "CHOOSING_FROM_DECK_TOP2"
PHASE_CHOOSING_ULTIMATUM_CARD == "CHOOSING_ULTIMATUM_CARD"
PHASE_REORDERING_DECK_TOP3 == "REORDERING_DECK_TOP3"
PHASE_DISCARDING_CARD_FROM_OPP_HAND == "DISCARDING_CARD_FROM_OPP_HAND"

SEQUENCE_BOUNDARIES ==
    { PHASE_AWAITING_INPUT, PHASE_CHOOSING_FROM_DECK_TOP2,
      PHASE_CHOOSING_ULTIMATUM_CARD, PHASE_REORDERING_DECK_TOP3,
      PHASE_DISCARDING_CARD_FROM_OPP_HAND }

\* Node ids a caller passes as src_id / dst_id: the default boundary phase,
\* another boundary phase, and a phase that is no boundary.
Phases == { PHASE_AWAITING_INPUT, PHASE_CHOOSING_FROM_DECK_TOP2, "P1" }

\* Action ids a caller passes.
ActionIds == { "a1", "a2" }

\* Rewards a caller passes to finalize_episode (loss, draw, win).
Rewards == { -1, 0, 1 }

VARIABLES
    \* KnowledgeGraph instance fields
    current_episode_id, current_sequence_id, current_sequence_start_phase,
    step_counter,
    \* the tables as the connection sees them
    episodes, sequences, steps, nodes, edges,
    \* the committed tables (what another reader, or a restart, sees)
    disk,
    \* the boundaries argument the caller passes to record_step (configuration)
    boundaries,
    \* "running", or "failed" once an operation was interrupted
    status,
    \* the last operation called and its reward argument
    last,
    \* per episode row, how often finalize_episode wrote its outcome
    writes,
    \* one call of Thinker.choose_sequence / Thinker._parse_choice: its
    \* arguments, the behaviour of llm.invoke, and how the call ended
    thinker,
    \* the game loop of src/main.py: engine state, loop locals, both players
    game

vars == << current_episode_id, current_sequence_id, current_sequence_start_phase,
           step_counter, episodes, sequences, steps, nodes, edges, disk,
           boundaries, status, last, writes, thinker, game >>

\* The variables of one KnowledgeGraph store.
store_vars == << current_episode_id, current_sequence_id, current_sequence_start_phase,
                 step_counter, episodes, sequences, steps, nodes, edges, disk,
                 boundaries, status, last, writes >>

\* No choose_sequence call and no game loop in progress.
NoCall == [pc |-> "none"]
NoGame == [pc |-> "none"]

\* --------------------------------------------------------------- helpers
\* SQL "a = b": never true when either side is NULL.
SqlEq(a, b) == a # None /\ b # None /\ a = b

\* Python truthiness of a node id read back from a TEXT column.
Truthy(s) == s # ""

\* REAL division a / b, kept exact.
RealDiv(a, b) == [num |-> a, den |-> b]
\* The column default 0.0.
RealZero == [num |-> 0, den |-> 1]

Tables(e, q, s, n, g) ==
    [episodes |-> e, sequences |-> q, steps |-> s, nodes |-> n, edges |-> g]

\* uuid.uuid4(): an id no row of the table carries yet.
uuid4(table) == Len(table) + 1

\* ----------------------------------------------------- signature_hash
ActionCode(a) == IF a = "a1" THEN 1 ELSE 2

HashBase == Cardinality(ActionIds) + 1

\* sha256 of str(tuple), cut to 16 hex digits: deterministic and sensitive to
\* order and length; modelled as an injective positional code of the tuple.
RECURSIVE signature_hash(_)
signature_hash(signature) ==
    IF signature = << >> THEN 1
    ELSE signature_hash(SubSeq(signature, 1, Len(signature) - 1)) * HashBase
         + ActionCode(signature[Len(signature)])

\* ------------------------------------------------- create_node / create_edge
NewNode(node_id) ==
    [id |-> node_id, total_reward |-> 0, count |-> 0, avg_reward |-> RealZero]

NewEdge(src_id, action_id, dst_id) ==
    [src_id |-> src_id, action_id |-> action_id, dst_id |-> dst_id,
     total_reward |-> 0, count |-> 0, avg_reward |-> RealZero]

\* Mutant: INSERT without OR IGNORE semantics, a second row for a known id.
create_node_NoIgnore(ns, node_id) == Append(ns, NewNode(node_id))

\* INSERT OR IGNORE INTO nodes (id)
create_node(ns, node_id) ==
    IF \E i \in DOMAIN ns : ns[i].id = node_id
    THEN ns
    ELSE Append(ns, NewNode(node_id))

\* Mutant: INSERT OR REPLACE, a known edge is replaced by a fresh row.
create_edge_Replace(es, src_id, action_id, dst_id) ==
    Append(SelectSeq(es, LAMBDA e : ~ (/\ e.src_id = src_id
                                       /\ e.action_id = action_id
                                       /\ e.dst_id = dst_id)),
           NewEdge(src_id, action_id, dst_id))

\* INSERT OR IGNORE INTO edges (src_id, action_id, dst_id)
create_edge(es, src_id, action_id, dst_id) ==
    IF \E i \in DOMAIN es : /\ es[i].src_id = src_id
                            /\ es[i].action_id = action_id
                            /\ es[i].dst_id = dst_id
    THEN es
    ELSE Append(es, NewEdge(src_id, action_id, dst_id))

\* ------------------------------------------------------------------ Init
\* KnowledgeGraph.__init__ on a fresh database file.
InitStore ==
    /\ current_episode_id = None
    /\ current_sequence_id = None
    /\ current_sequence_start_phase = NonePhase
    /\ step_counter = 0
    /\ episodes = << >>
    /\ sequences = << >>
    /\ steps = << >>
    /\ nodes = << >>
    /\ edges = << >>
    /\ disk = Tables(<< >>, << >>, << >>, << >>, << >>)
    /\ status = "running"
    /\ last = [op |-> "init", reward |-> 0]
    /\ writes = << >>

\* The store as src/main.py drives it: boundaries=SEQUENCE_BOUNDARIES.
Init ==
    /\ InitStore
    /\ boundaries = SEQUENCE_BOUNDARIES
    /\ thinker = NoCall
    /\ game = NoGame

\* ----------------------------------------------------- start_new_episode
start_new_episode ==
    /\ status = "running"
    /\ Len(episodes) < MaxEpisodes
    /\ LET id == uuid4(episodes) IN
        /\ current_episode_id' = id
        /\ step_counter' = 0
        /\ episodes' = Append(episodes, [episode_id |-> id, outcome |-> 0])
        /\ writes' = Append(writes, 0)
    /\ disk' = Tables(episodes', sequences, steps, nodes, edges)
    /\ last' = [op |-> "start_new_episode", reward |-> 0]
    /\ UNCHANGED << current_sequence_id, current_sequence_start_phase,
                    sequences, steps, nodes, edges, boundaries, status,
                    thinker, game >>

\* ---------------------------------------------------- start_new_sequence
\* The sequences table after INSERT INTO sequences (sequence_id, episode_id);
\* the signature column is left NULL.
start_new_sequence(seqs, sequence_id, episode_id) ==
    Append(seqs, [sequence_id |-> sequence_id, episode_id |-> episode_id,
                  signature |-> None])

\* ------------------------------------------------------ finalize_sequence
\* The rowids of SELECT ... FROM steps WHERE sequence_id = ?
StepsOfSequence(sts, sequence_id) ==
    { i \in DOMAIN sts : SqlEq(sts[i].sequence_id, sequence_id) }

\* ORDER BY step_num ASC: every order of those rows in which step_num never
\* decreases (sqlite leaves the order of rows with equal step_num open).
OrderByStepNum(sts, rowids) ==
    LET n == Cardinality(rowids) IN
    { ord \in [1..n -> rowids] :
        /\ \A i, j \in 1..n : i # j => ord[i] # ord[j]
        /\ \A i, j \in 1..n : i < j => sts[ord[i]].step_num <= sts[ord[j]].step_num }

\* Mutant: the UPDATE without its WHERE clause, every row gets the signature.
finalize_sequence_NoWhere(seqs, sts, sequence_id, ord) ==
    LET sig == [i \in DOMAIN ord |-> sts[ord[i]].action_id]
    IN  [i \in DOMAIN seqs |-> [seqs[i] EXCEPT !.signature = signature_hash(sig)]]

\* UPDATE sequences SET signature = ? WHERE sequence_id = ?, the signature
\* being the hash of the action ids of the rows in the order `ord`.
finalize_sequence(seqs, sts, sequence_id, ord) ==
    LET sig == [i \in DOMAIN ord |-> sts[ord[i]].action_id]
        sig_hash == signature_hash(sig)
    IN  [i \in DOMAIN seqs |->
            IF SqlEq(seqs[i].sequence_id, sequence_id)
            THEN [seqs[i] EXCEPT !.signature = sig_hash]
            ELSE seqs[i]]

\* ------------------------------------------------------------ record_step
\* Mutant: the closing test without its start-phase branch.
ShouldClose_BoundaryOnly(start_phase, dst_id, bnds) == dst_id \in bnds

\* The closing test of record_step (lines 147-154).
ShouldClose(start_phase, dst_id, bnds) ==
    IF start_phase = PHASE_AWAITING_INPUT
    THEN dst_id \in bnds
    ELSE dst_id # start_phase

StepRow(episode_id, sequence_id, step_num, src_id, action_id, dst_id) ==
    [episode_id |-> episode_id, sequence_id |-> sequence_id,
     step_num |-> step_num, src_id |-> src_id, action_id |-> action_id,
     dst_id |-> dst_id]

\* Whether record_step opens a sequence (line 137).
OpensSequence == current_sequence_id = None

record_step(src_id, action_id, dst_id) ==
    /\ status = "running"
    /\ LET nodes1 == create_node(nodes, src_id)
           edges1 == create_edge(edges, src_id, action_id, dst_id)
           nodes2 == create_node(nodes1, dst_id)
           opens  == OpensSequence
           seq_id == IF opens THEN uuid4(sequences) ELSE current_sequence_id
           start  == IF opens THEN src_id ELSE current_sequence_start_phase
           seqs1  == IF opens
                     THEN start_new_sequence(sequences, seq_id, current_episode_id)
                     ELSE sequences
           steps1 == Append(steps, StepRow(current_episode_id, seq_id,
                                           step_counter, src_id, action_id, dst_id))
       IN
        /\ nodes' = nodes2
        /\ edges' = edges1
        /\ steps' = steps1
        /\ step_counter' = step_counter + 1
        /\ current_sequence_start_phase' = start
        /\ IF ShouldClose(start, dst_id, boundaries)
           THEN /\ \E ord \in OrderByStepNum(steps1, StepsOfSequence(steps1, seq_id)) :
                       sequences' = finalize_sequence(seqs1, steps1, seq_id, ord)
                /\ current_sequence_id' = None
           ELSE /\ sequences' = seqs1
                /\ current_sequence_id' = seq_id
    /\ disk' = Tables(episodes, sequences', steps', nodes', edges')
    /\ last' = [op |-> "record_step", reward |-> 0]
    /\ UNCHANGED << current_episode_id, episodes, boundaries, status, writes,
                    thinker, game >>

\* The caller starts an episode before it records or finalizes anything
\* (src/main.py lines 38-39).
EpisodeStarted == current_episode_id # None

RecordStep ==
    /\ EpisodeStarted
    /\ Len(steps) < MaxSteps
    /\ \E src_id \in Phases, action_id \in ActionIds, dst_id \in Phases :
            record_step(src_id, action_id, dst_id)

\* ------------------------------------------- record_step, interrupted
\* The statements of record_step at which a fault (a persistence error, the
\* process being killed) can end the call; the exception is not caught
\* (src/main.py has no handler), the connection is dropped and sqlite rolls
\* the open transaction back.
InterruptPoints ==
    { "create_node_src", "create_edge", "create_node_dst", "start_new_sequence",
      "insert_step", "finalize_sequence", "commit" }

\* The points that lie after the commit at the end of start_new_sequence.
AfterSequenceCommit == { "insert_step", "finalize_sequence", "commit" }

record_step_interrupted(src_id, action_id, dst_id, at) ==
    /\ status = "running"
    /\ LET nodes1 == create_node(nodes, src_id)
           edges1 == create_edge(edges, src_id, action_id, dst_id)
           nodes2 == create_node(nodes1, dst_id)
           seq_id == uuid4(sequences)
           \* start_new_sequence ran to its conn.commit() (line 130)
           committed == OpensSequence /\ at \in AfterSequenceCommit
       IN
        /\ disk' = IF committed
                   THEN Tables(episodes,
                               start_new_sequence(sequences, seq_id, current_episode_id),
                               steps, nodes2, edges1)
                   ELSE disk
        /\ current_sequence_id' = IF committed THEN seq_id ELSE current_sequence_id
        /\ current_sequence_start_phase' =
                IF committed THEN src_id ELSE current_sequence_start_phase
        /\ step_counter' = IF at \in { "finalize_sequence", "commit" }
                           THEN step_counter + 1 ELSE step_counter
    /\ episodes' = disk'.episodes
    /\ sequences' = disk'.sequences
    /\ steps' = disk'.steps
    /\ nodes' = disk'.nodes
    /\ edges' = disk'.edges
    /\ status' = "failed"
    /\ last' = [op |-> "record_step_interrupted", reward |-> 0]
    /\ UNCHANGED << current_episode_id, boundaries, writes, thinker, game >>

RecordStepInterrupted ==
    /\ EpisodeStarted
    /\ Len(steps) < MaxSteps
    /\ \E src_id \in Phases, action_id \in ActionIds, dst_id \in Phases,
          at \in InterruptPoints :
            record_step_interrupted(src_id, action_id, dst_id, at)

\* ------------------------------------------------------- finalize_episode
\* Mutant: the SELECT has no WHERE clause and returns the steps of every episode.
StepsOfEpisode_NoWhere(sts, episode_id) ==
    sts

\* SELECT src_id, action_id, dst_id FROM steps WHERE episode_id = ?, in rowid
\* order (a scan of the table).
StepsOfEpisode(sts, episode_id) ==
    SelectSeq(sts, LAMBDA r : SqlEq(r.episode_id, episode_id))

\* Mutant: the final destination is not counted.
node_counts_SourcesOnly(rows, node_id) ==
    Cardinality({ i \in DOMAIN rows : rows[i].src_id = node_id })

\* Mutant: the destination of every step is counted, not only the last one's.
node_counts_EveryDestination(rows, node_id) ==
    Cardinality({ i \in DOMAIN rows : rows[i].src_id = node_id })
    + Cardinality({ i \in DOMAIN rows : rows[i].dst_id = node_id })

\* Counter(row['src_id'] for row in steps), plus one for the last row's dst_id.
node_counts(rows, node_id) ==
    LET final_destination == rows[Len(rows)].dst_id IN
    Cardinality({ i \in DOMAIN rows : rows[i].src_id = node_id })
    + (IF Truthy(final_destination) /\ final_destination = node_id THEN 1 ELSE 0)

\* Counter((src_id, action_id, dst_id) for row in steps)
edge_counts(rows, src_id, action_id, dst_id) ==
    Cardinality({ i \in DOMAIN rows : /\ rows[i].src_id = src_id
                                      /\ rows[i].action_id = action_id
                                      /\ rows[i].dst_id = dst_id })

\* Mutant: avg_reward computed from the columns the same UPDATE has already
\* advanced (assignments applied left to right).
UpdateAggregate_ReadsUpdatedColumns(row, visits, reward) ==
    LET total_added_reward == visits * reward IN
    [row EXCEPT !.count = row.count + visits,
                !.total_reward = row.total_reward + total_added_reward,
                !.avg_reward = RealDiv(row.total_reward + 2 * total_added_reward,
                                       row.count + 2 * visits)]

\* UPDATE ... SET count = count + ?, total_reward = total_reward + ?,
\*                avg_reward = (total_reward + ?) / (count + ?)
\* every right-hand side reads the row as it was before the UPDATE.
UpdateAggregate(row, visits, reward) ==
    LET total_added_reward == visits * reward IN
    [row EXCEPT !.count = row.count + visits,
                !.total_reward = row.total_reward + total_added_reward,
                !.avg_reward = RealDiv(row.total_reward + total_added_reward,
                                       row.count + visits)]

\* UPDATE episodes SET outcome = ? WHERE episode_id = ?
SetOutcome(eps, episode_id, reward) ==
    [i \in DOMAIN eps |->
        IF SqlEq(eps[i].episode_id, episode_id)
        THEN [eps[i] EXCEPT !.outcome = reward]
        ELSE eps[i]]

\* The outcome writes so far, over all episodes (bounds the model).
RECURSIVE OutcomeWrites(_)
OutcomeWrites(w) == IF w = << >> THEN 0 ELSE Head(w) + OutcomeWrites(Tail(w))

finalize_episode(reward) ==
    /\ status = "running"
    /\ OutcomeWrites(writes) < MaxFinalizes
    /\ episodes' = SetOutcome(episodes, current_episode_id, reward)
    /\ writes' = [i \in DOMAIN writes |->
                    IF SqlEq(episodes[i].episode_id, current_episode_id)
                    THEN writes[i] + 1 ELSE writes[i]]
    /\ LET rows == StepsOfEpisode(steps, current_episode_id) IN
       IF rows = << >>
       THEN UNCHANGED << nodes, edges >>
       ELSE /\ nodes' = [i \in DOMAIN nodes |->
                    IF node_counts(rows, nodes[i].id) > 0
                    THEN UpdateAggregate(nodes[i], node_counts(rows, nodes[i].id), reward)
                    ELSE nodes[i]]
            /\ edges' = [i \in DOMAIN edges |->
                    LET v == edge_counts(rows, edges[i].src_id, edges[i].action_id,
                                         edges[i].dst_id)
                    IN IF v > 0 THEN UpdateAggregate(edges[i], v, reward) ELSE edges[i]]
    /\ disk' = Tables(episodes', sequences, steps, nodes', edges')
    /\ last' = [op |-> "finalize_episode", reward |-> reward]
    /\ UNCHANGED << current_episode_id, current_sequence_id,
                    current_sequence_start_phase, step_counter, sequences, steps,
                    boundaries, status, thinker, game >>

FinalizeEpisode ==
    /\ EpisodeStarted
    /\ \E reward \in Rewards : finalize_episode(reward)

\* ----------------------------------------------------- get_sequence_stats
\* round(avg, 3) of avg = total / n, in thousandths (ties to the even one).
Round3(total, n) ==
    LET num == 1000 * total
        floor == num \div n
        rem == num % n
    IN  IF 2 * rem < n THEN floor
        ELSE IF 2 * rem > n THEN floor + 1
        ELSE IF floor % 2 = 0 THEN floor ELSE floor + 1

\* if not rows: return None
NoStats == [found |-> FALSE]

\* SELECT e.outcome FROM sequences s JOIN episodes e
\*     ON s.episode_id = e.episode_id WHERE s.signature = ?
\* one row per matching pair of a sequence row and an episode row
StatsRows(signature) ==
    { << k, j >> \in (DOMAIN sequences) \X (DOMAIN episodes) :
        /\ SqlEq(sequences[k].episode_id, episodes[j].episode_id)
        /\ SqlEq(sequences[k].signature, signature) }

RECURSIVE SumOutcomes(_)
SumOutcomes(rows) ==
    IF rows = {} THEN 0
    ELSE LET r == CHOOSE r \in rows : TRUE
         IN  episodes[r[2]].outcome + SumOutcomes(rows \ {r})

\* Mutant: an outcome of 0 counts as a win.
get_sequence_stats_ZeroIsWin(signature) ==
    LET rows == StatsRows(signature) IN
    IF rows = {} THEN NoStats
    ELSE [found |-> TRUE,
          wins |-> Cardinality({ r \in rows : episodes[r[2]].outcome >= 0 }),
          losses |-> Cardinality({ r \in rows : episodes[r[2]].outcome < 0 }),
          avg_reward |-> Round3(SumOutcomes(rows), Cardinality(rows)),
          total |-> Cardinality(rows)]

get_sequence_stats(signature) ==
    LET rows == StatsRows(signature) IN
    IF rows = {} THEN NoStats
    ELSE [found |-> TRUE,
          wins |-> Cardinality({ r \in rows : episodes[r[2]].outcome > 0 }),
          losses |-> Cardinality({ r \in rows : episodes[r[2]].outcome < 0 }),
          avg_reward |-> Round3(SumOutcomes(rows), Cardinality(rows)),
          total |-> Cardinality(rows)]

Next ==
    \/ start_new_episode
    \/ RecordStep
    \/ RecordStepInterrupted
    \/ FinalizeEpisode

Spec == Init /\ [][Next]_vars

\* ------------------------------------------------ the segmenter scenario
\* A caller that passes the boundary set {P2, P4} and records steps whose
\* destinations are P1, P3, P2, P1, P4 in this order, from any source phase,
\* with episodes started at any point in between.
ExampleBoundaries == { "P2", "P4" }

ExampleDestinations == << "P1", "P3", "P2", "P1", "P4" >>

ExamplePhases == { PHASE_AWAITING_INPUT, "P1", "P2", "P3", "P4" }

InitSegmenter ==
    /\ InitStore
    /\ boundaries = ExampleBoundaries
    /\ thinker = NoCall
    /\ game = NoGame

RecordExampleStep ==
    /\ EpisodeStarted
    /\ Len(steps) < Len(ExampleDestinations)
    /\ \E src_id \in ExamplePhases :
            record_step(src_id, "a1", ExampleDestinations[Len(steps) + 1])

NextSegmenter ==
    \/ start_new_episode
    \/ RecordExampleStep

SpecSegmenter == InitSegmenter /\ [][NextSegmenter]_vars

\* ============================================================== Thinker
\* A response of llm.invoke is a string, modelled as a sequence of tokens:
\* "CHOICE:" is the keyword in any letter case, " " any whitespace, "x" a
\* letter, and the others decimal digits.
Digits == { "0", "2", "4", "7" }

Tokens == { "CHOICE:", " ", "x" } \cup Digits

\* The longest response that is enumerated for _parse_choice.
MaxResponseLen == 4

\* The largest num_choices that is enumerated for _parse_choice.
MaxChoices == 5

Responses(len) == UNION { [1..n -> Tokens] : n \in 0..len }

\* int() of one digit character
DigitValue(c) ==
    IF c = "0" THEN 0 ELSE IF c = "2" THEN 2 ELSE IF c = "4" THEN 4 ELSE 7

\* int(num_str) of the digits response[i..j]
RECURSIVE ParseInt(_, _, _)
ParseInt(response, i, j) ==
    IF j < i THEN 0
    ELSE 10 * ParseInt(response, i, j - 1) + DigitValue(response[j])

\* \d+ is greedy: the end of the run of digits that starts at i
RECURSIVE DigitRunEnd(_, _)
DigitRunEnd(response, i) ==
    IF i < Len(response) /\ response[i + 1] \in Digits
    THEN DigitRunEnd(response, i + 1)
    ELSE i

\* \s* is greedy: the first position from i on that holds no whitespace
RECURSIVE SkipSpaces(_, _)
SkipSpaces(response, i) ==
    IF i <= Len(response) /\ response[i] = " "
    THEN SkipSpaces(response, i + 1)
    ELSE i

\* The positions where r"CHOICE:\s*(\d+)" matches.
ChoiceMatches(response) ==
    { i \in DOMAIN response :
        /\ response[i] = "CHOICE:"
        /\ SkipSpaces(response, i + 1) <= Len(response)
        /\ response[SkipSpaces(response, i + 1)] \in Digits }

\* int(match.group(1)) of the match at position i
ChoiceValue(response, i) ==
    LET d == SkipSpaces(response, i + 1)
    IN  ParseInt(response, d, DigitRunEnd(response, d))

\* \b before position i: start of the string or a non-word character before
\* ("CHOICE:" ends with a colon)
BoundaryBefore(response, i) ==
    i = 1 \/ response[i - 1] \in { " ", "CHOICE:" }

\* \b after position j: end of the string or a non-word character after
\* ("CHOICE:" starts with a letter)
BoundaryAfter(response, j) ==
    j = Len(response) \/ response[j + 1] = " "

\* The start positions of the matches of r"\b(\d+)\b": the runs of digits
\* with a word boundary on both sides.
BareIntegerStarts(response) ==
    { i \in DOMAIN response :
        /\ response[i] \in Digits
        /\ (i = 1 \/ response[i - 1] \notin Digits)
        /\ BoundaryBefore(response, i)
        /\ BoundaryAfter(response, DigitRunEnd(response, i)) }

\* 0 <= val < num_choices
InRange(val, num_choices) == 0 <= val /\ val < num_choices

\* Mutant: the fallback scans the integers from the front, not reversed.
_parse_choice_FirstInteger(response, num_choices) ==
    LET m == ChoiceMatches(response)
        first == CHOOSE i \in m : \A j \in m : i <= j
        valid == { i \in BareIntegerStarts(response) :
                     InRange(ParseInt(response, i, DigitRunEnd(response, i)), num_choices) }
        lastv == CHOOSE i \in valid : \A j \in valid : i <= j
    IN  IF response = << >> THEN 0
        ELSE IF m # {} /\ InRange(ChoiceValue(response, first), num_choices)
             THEN ChoiceValue(response, first)
        ELSE IF valid # {}
             THEN ParseInt(response, lastv, DigitRunEnd(response, lastv))
        ELSE 0

\* Thinker._parse_choice, the index it returns (the reasoning text it
\* returns with it is only logged).
_parse_choice(response, num_choices) ==
    LET m == ChoiceMatches(response)
        \* re.search: the leftmost match
        first == CHOOSE i \in m : \A j \in m : i <= j
        \* for num_str in reversed(numbers): the last one in range
        valid == { i \in BareIntegerStarts(response) :
                     InRange(ParseInt(response, i, DigitRunEnd(response, i)), num_choices) }
        lastv == CHOOSE i \in valid : \A j \in valid : i >= j
    IN  IF response = << >> THEN 0
        ELSE IF m # {} /\ InRange(ChoiceValue(response, first), num_choices)
             THEN ChoiceValue(response, first)
        ELSE IF valid # {}
             THEN ParseInt(response, lastv, DigitRunEnd(response, lastv))
        ELSE 0

\* One call _parse_choice(response, num_choices) for every response of at
\* most MaxResponseLen tokens and every num_choices in 1..MaxChoices.
InitParse ==
    /\ InitStore
    /\ boundaries = SEQUENCE_BOUNDARIES
    /\ game = NoGame
    /\ thinker \in { [pc |-> "parsing", response |-> r, num_choices |-> n, result |-> 0] :
                       r \in Responses(MaxResponseLen), n \in 1..MaxChoices }

ParseChoice ==
    /\ thinker.pc = "parsing"
    /\ thinker' = [thinker EXCEPT
                     !.pc = "parsed",
                     !.result = _parse_choice(thinker.response, thinker.num_choices)]
    /\ UNCHANGED << store_vars, game >>

NextParse == ParseChoice

SpecParse == InitParse /\ [][NextParse]_vars

\* ------------------------------------------------------- choose_sequence
\* for i, seq in enumerate(legal_sequences[:40])
PromptCap == 40

\* The longest candidate list that is enumerated for choose_sequence.
MaxCandidates == 41

\* The longest llm response that is enumerated for choose_sequence.
MaxReplyLen == 3

\* The candidate list is modelled by its length: the candidates are its
\* positions 0 .. legal_sequences - 1. The positions the prompt enumerates:
Enumerated(legal_sequences) ==
    { i \in 0..(legal_sequences - 1) : i < PromptCap }

\* self.llm.invoke(prompt, temperature=0.3) raises, or returns a text (None
\* and "" are the empty text); the prompt does not restrict the answer.
LlmBehaviours ==
    { [raises |-> TRUE, text |-> << >>] }
    \cup { [raises |-> FALSE, text |-> r] : r \in Responses(MaxReplyLen) }

Returned(i) == [pc |-> "returned", result |-> i]

Raised == [pc |-> "raised", result |-> -1]

\* random.choice(legal_sequences): any element, IndexError on an empty list
random_choice(legal_sequences) ==
    IF legal_sequences = 0 THEN { Raised }
    ELSE { Returned(i) : i \in 0..(legal_sequences - 1) }

\* Mutant: no except clause, an exception of llm.invoke reaches the caller.
choose_sequence_NoFallback(legal_sequences, llm) ==
    IF llm.raises THEN { Raised }
    ELSE LET choice == _parse_choice(llm.text, legal_sequences) IN
         IF choice \in 0..(legal_sequences - 1)
         THEN { Returned(choice) }
         ELSE { Raised }

\* Mutant: a response without a valid index is answered by random.choice.
choose_sequence_RandomWhenUnparsed(legal_sequences, llm) ==
    IF llm.raises THEN random_choice(legal_sequences)
    ELSE LET choice == _parse_choice(llm.text, legal_sequences)
             m == ChoiceMatches(llm.text)
             found == \/ \E i \in m : InRange(ChoiceValue(llm.text, i), legal_sequences)
                      \/ \E i \in BareIntegerStarts(llm.text) :
                            InRange(ParseInt(llm.text, i, DigitRunEnd(llm.text, i)),
                                    legal_sequences)
         IN  IF found /\ choice \in 0..(legal_sequences - 1)
             THEN { Returned(choice) }
             ELSE random_choice(legal_sequences)

\* Thinker.choose_sequence: the ways the call can end.
\*   try: response = llm.invoke(...); choice, _ = _parse_choice(response,
\*        len(legal_sequences)); return legal_sequences[choice]
\*   except Exception: return random.choice(legal_sequences)
choose_sequence(legal_sequences, llm) ==
    IF llm.raises THEN random_choice(legal_sequences)
    ELSE LET choice == _parse_choice(llm.text, legal_sequences) IN
         IF choice \in 0..(legal_sequences - 1)
         THEN { Returned(choice) }
         \* legal_sequences[choice] raises IndexError inside the try
         ELSE random_choice(legal_sequences)

\* One call choose_sequence(legal_sequences, ...) for every list of 1 to
\* MaxCandidates candidates and every behaviour of llm.invoke.
InitChoose ==
    /\ InitStore
    /\ boundaries = SEQUENCE_BOUNDARIES
    /\ game = NoGame
    /\ thinker \in { [pc |-> "called", legal_sequences |-> n, llm |-> b, result |-> -1] :
                       n \in 1..MaxCandidates, b \in LlmBehaviours }

ChooseSequence ==
    /\ thinker.pc = "called"
    /\ \E out \in choose_sequence(thinker.legal_sequences, thinker.llm) :
          thinker' = [thinker EXCEPT !.pc = out.pc, !.result = out.result]
    /\ UNCHANGED << store_vars, game >>

NextChoose == ChooseSequence

SpecChoose == InitChoose /\ [][NextChoose]_vars

\* ============================================================ game loop
\* The loop of src/main.py for one game. The engine is an outside
\* collaborator: which phase and player come next, whether an action is
\* accepted, and when the game ends are its choices. Each player's
\* KnowledgeGraph is represented by the calls made on it: the steps passed to
\* record_step and the rewards passed to finalize_episode.
Players == { "hero", "monster" }

\* engine.reset(hero_type="computer_random", monster_type="computer_ai")
player_type(player) ==
    IF player = "hero" THEN "computer_random" ELSE "computer_ai"

\* The values engine.gs.game_phase takes in the model.
GamePhases == { PHASE_AWAITING_INPUT, PHASE_CHOOSING_FROM_DECK_TOP2 }

\* The loop iterations of one game in the model.
MaxTurns == 3

\* The step lists (action ids) of the candidate sequences that
\* engine.get_legal_sequences(current_graph.get_unique_sequences()) can return.
Plans == { << "a1", "a2" >>, << "a2" >> }

\* pending_steps[player] = None
NoStep == [src_id |-> NonePhase, action_id |-> "None"]

\* engine.get_results() is None
NoResults == [none |-> TRUE]

\* engine.get_results() at the end of a game: the reward of each player
Results == { [hero |-> 1, monster |-> -1], [hero |-> -1, monster |-> 1] }

\* if prev_step is not None: prev_step.dst_id = engine.gs.game_phase;
\*     current_graph.record_step(prev_step, ...)
record_pending(recorded, step, game_phase) ==
    IF step = NoStep THEN recorded
    ELSE Append(recorded, [src_id |-> step.src_id, action_id |-> step.action_id,
                           dst_id |-> game_phase])

\* random.choice(engine.get_legal_actions(actions_text))
RandomAction(remaining) ==
    { [action_id |-> a, remaining |-> remaining, source |-> "random"] : a \in ActionIds }

\* The first step of a newly chosen candidate sequence: thinker.choose_sequence
\* when there are several legal sequences, the only one when there is one,
\* a random single action when there is none.
NewSequence(legal_sequences) ==
    IF legal_sequences = {} THEN RandomAction(<< >>)
    ELSE { [action_id |-> Head(chosen), remaining |-> Tail(chosen), source |-> "chosen"] :
             chosen \in legal_sequences }

\* --- Pick an action ---: the action id, what is left of the player's
\* sequence, and where the action came from
PickAction(player, remaining) ==
    IF player_type(player) = "computer_random" THEN RandomAction(remaining)
    ELSE IF remaining # << >>
         THEN { [action_id |-> Head(remaining), remaining |-> Tail(remaining),
                 source |-> "continued"] }
         ELSE UNION { NewSequence(legal_sequences) : legal_sequences \in SUBSET Plans }

\* Mutant: the step is kept as pending whether or not the action was legal.
pending_after_iterate_IgnoresLegal(current_step, legal) ==
    current_step

\* if legal: pending_steps[current_player] = current_step
pending_after_iterate(current_step, legal) ==
    IF legal THEN current_step ELSE NoStep

\* Mutant: a rejected action does not abandon the sequence.
active_after_iterate_KeepsSequence(remaining, legal) ==
    remaining

\* else: active_sequences[current_player] = []  # abandon sequence
active_after_iterate(remaining, legal) ==
    IF legal THEN remaining ELSE << >>

\* engine.iterate(action_id): an accepted action moves the game on, a
\* rejected one leaves the engine as it was
engine_iterate(legal) ==
    IF legal
    THEN { [game_phase |-> ph, turn_priority |-> pl, results |-> r] :
             ph \in GamePhases, pl \in Players, r \in { NoResults } \cup Results }
    ELSE { [game_phase |-> game.game_phase, turn_priority |-> game.turn_priority,
            results |-> game.results] }

\* After engine.reset: no pending step, no active sequence, nothing recorded.
InitGame ==
    /\ InitStore
    /\ boundaries = SEQUENCE_BOUNDARIES
    /\ thinker = NoCall
    /\ game \in { [pc |-> "playing", game_phase |-> ph, turn_priority |-> pl,
                   results |-> NoResults,
                   pending_steps |-> [q \in Players |-> NoStep],
                   active_sequences |-> [q \in Players |-> << >>],
                   recorded |-> [q \in Players |-> << >>],
                   finalized |-> [q \in Players |-> << >>],
                   turns |-> << >>] : ph \in GamePhases, pl \in Players }

\* One iteration of `while engine.get_results() is None`.
GameTurn ==
    /\ game.pc = "playing"
    /\ game.results = NoResults
    /\ Len(game.turns) < MaxTurns
    /\ LET current_player == game.turn_priority IN
       \E pick \in PickAction(current_player, game.active_sequences[current_player]),
          legal \in BOOLEAN :
       \E engine \in engine_iterate(legal) :
          LET current_step == [src_id |-> game.game_phase, action_id |-> pick.action_id] IN
          game' = [game EXCEPT
                     !.recorded[current_player] =
                         record_pending(@, game.pending_steps[current_player],
                                        game.game_phase),
                     !.pending_steps[current_player] =
                         pending_after_iterate(current_step, legal),
                     !.active_sequences[current_player] =
                         active_after_iterate(pick.remaining, legal),
                     !.game_phase = engine.game_phase,
                     !.turn_priority = engine.turn_priority,
                     !.results = engine.results,
                     !.turns = Append(@, [player |-> current_player,
                                          phase |-> game.game_phase,
                                          action_id |-> pick.action_id,
                                          source |-> pick.source,
                                          legal |-> legal])]
    /\ UNCHANGED << store_vars, thinker >>

\* --- Game over: record final pending steps ---
RecordFinalPending ==
    /\ game.pc = "playing"
    /\ game.results # NoResults
    /\ game' = [game EXCEPT
                  !.pc = "recorded",
                  !.recorded = [q \in Players |->
                      record_pending(game.recorded[q], game.pending_steps[q],
                                     game.game_phase)]]
    /\ UNCHANGED << store_vars, thinker >>

\* for player, graph in graphs.items(): graph.finalize_episode(rewards[player])
FinalizeEpisodes ==
    /\ game.pc = "recorded"
    /\ game' = [game EXCEPT
                  !.pc = "finalized",
                  !.finalized = [q \in Players |->
                      Append(game.finalized[q], game.results[q])]]
    /\ UNCHANGED << store_vars, thinker >>

NextGame == GameTurn \/ RecordFinalPending \/ FinalizeEpisodes

SpecGame == InitGame /\ [][NextGame]_vars

\* =========================================================== properties
Min(S) == CHOOSE x \in S : \A y \in S : x <= y
Max(S) == CHOOSE x \in S : \A y \in S : x >= y

\* The sequences row a step row points to.
SequenceRowOf(i) ==
    CHOOSE q \in { sequences[k] : k \in DOMAIN sequences } :
        q.sequence_id = steps[i].sequence_id

\* Step rows are appended in recording order, so the rows that share step i's
\* sequence_id, in rowid order, are the steps recorded into that sequence.
SameSequence(i) == { j \in DOMAIN steps : steps[j].sequence_id = steps[i].sequence_id }

\* The source phase of the first step recorded into step i's sequence.
StartPhaseOf(i) == steps[Min(SameSequence(i))].src_id

\* The record_step call that recorded step i closed the sequence: the step is
\* the last of its sequence and the sequence carries a signature.
ClosedBy(i) ==
    /\ SequenceRowOf(i).signature # None
    /\ i = Max(SameSequence(i))

ClosingSteps == { i \in DOMAIN steps : ClosedBy(i) }

C2_NoActiveSequenceAfterStartNewEpisode ==
    /\ last.op = "start_new_episode" => current_sequence_id = None
    /\ (last.op = "record_step" /\ step_counter = 1) =>
          /\ SameSequence(Len(steps)) = { Len(steps) }
          /\ SequenceRowOf(Len(steps)).episode_id = current_episode_id

\* ---------------------------------------------------------------- C3
\* The steps of the current episode, as rowids.
EpisodeSteps ==
    { i \in DOMAIN steps :
        current_episode_id # None /\ steps[i].episode_id = current_episode_id }

\* Visits of a node in the current episode: once per step leaving it, and
\* once more when it is the destination of the episode's last step.
NodeVisits(node_id) ==
    Cardinality({ i \in EpisodeSteps : steps[i].src_id = node_id })
    + (IF steps[Max(EpisodeSteps)].dst_id = node_id THEN 1 ELSE 0)

\* Visits of an edge in the current episode: the steps with that triple.
EdgeVisits(src_id, action_id, dst_id) ==
    Cardinality({ i \in EpisodeSteps : /\ steps[i].src_id = src_id
                                       /\ steps[i].action_id = action_id
                                       /\ steps[i].dst_id = dst_id })

\* A step of the store that is a finalize_episode call on an episode with at
\* least one step.
FinalizeWithSteps == last'.op = "finalize_episode" /\ EpisodeSteps # {}

\* C3: finalize_episode(outcome) on an episode with at least one step adds to
\* each node's count its visits v (steps leaving it, plus one for the
\* destination of the last step) and to its total_reward v * outcome, adds to
\* each edge's count the number v of steps with its triple and v * outcome to
\* its total_reward, and leaves the rows the episode did not touch unchanged.
C3_FinalizeAddsVisits ==
    [][ FinalizeWithSteps =>
          /\ Len(nodes') = Len(nodes) /\ Len(edges') = Len(edges)
          /\ \A i \in DOMAIN nodes :
                LET v == NodeVisits(nodes[i].id) IN
                /\ nodes'[i].id = nodes[i].id
                /\ nodes'[i].count = nodes[i].count + v
                /\ nodes'[i].total_reward = nodes[i].total_reward + v * last'.reward
                /\ v = 0 => nodes'[i] = nodes[i]
          /\ \A i \in DOMAIN edges :
                LET v == EdgeVisits(edges[i].src_id, edges[i].action_id, edges[i].dst_id) IN
                /\ edges'[i].count = edges[i].count + v
                /\ edges'[i].total_reward = edges[i].total_reward + v * last'.reward
                /\ v = 0 => edges'[i] = edges[i]
      ]_vars

\* C3 witness: finalize_episode has just run with a non-zero outcome on an
\* episode of two steps, one node counted twice and another row left untouched.
C3_Witness ==
    /\ last.op = "finalize_episode"
    /\ last.reward # 0
    /\ Cardinality(EpisodeSteps) = 2
    /\ \E i \in DOMAIN nodes : nodes[i].count = 2 /\ nodes[i].total_reward = 2 * last.reward
    /\ \E i \in DOMAIN nodes : nodes[i].count = 0

\* ---------------------------------------------------------------- C4
\* The current episode's steps are exactly [(A, x, B), (B, y, C)].
EpisodeIsChain(A, x, B, y, C) ==
    /\ Cardinality(EpisodeSteps) = 2
    /\ LET s1 == steps[Min(EpisodeSteps)]
           s2 == steps[Max(EpisodeSteps)]
       IN /\ s1.src_id = A /\ s1.action_id = x /\ s1.dst_id = B
          /\ s2.src_id = B /\ s2.action_id = y /\ s2.dst_id = C

NodeCount(ns, node_id) == (CHOOSE r \in { ns[k] : k \in DOMAIN ns } : r.id = node_id).count

EdgeCount(es, src_id, action_id, dst_id) ==
    (CHOOSE r \in { es[k] : k \in DOMAIN es } :
        r.src_id = src_id /\ r.action_id = action_id /\ r.dst_id = dst_id).count

\* What finalize_episode(1) adds on the chain [(A, x, B), (B, y, C)]: `b`
\* visits to node B, one visit to A, to C and to each of the two edges.
ChainVisits(b) ==
    \A A \in Phases, B \in Phases, C \in Phases, x \in ActionIds, y \in ActionIds :
        ( /\ A # B /\ B # C /\ A # C
          /\ last'.op = "finalize_episode" /\ last'.reward = 1
          /\ EpisodeIsChain(A, x, B, y, C) )
        => /\ NodeCount(nodes', A) = NodeCount(nodes, A) + 1
           /\ NodeCount(nodes', B) = NodeCount(nodes, B) + b
           /\ NodeCount(nodes', C) = NodeCount(nodes, C) + 1
           /\ EdgeCount(edges', A, x, B) = EdgeCount(edges, A, x, B) + 1
           /\ EdgeCount(edges', B, y, C) = EdgeCount(edges, B, y, C) + 1

\* C4 as stated: on an episode with steps [(A,a1,B),(B,a2,C)], A, B, C
\* distinct, finalize_episode(1.0) adds 1 visit to node A, 2 visits to node B,
\* 1 visit to node C and 1 visit to each of the two edges.
C4_ChainAddsTwoVisitsToB == [][ChainVisits(2)]_vars

\* C4 amended: on that episode finalize_episode(1.0) adds 1 visit to node A,
\* 1 visit to node B (as the source of the second step; B is not the final
\* destination), 1 visit to node C (the final destination) and 1 visit to each
\* of the two edges.
C4_ChainAddsOneVisitToB == [][ChainVisits(1)]_vars

\* C4 witness: finalize_episode(1) has run on an episode that is such a chain.
C4_Witness ==
    /\ last.op = "finalize_episode" /\ last.reward = 1
    /\ \E A \in Phases, B \in Phases, C \in Phases, x \in ActionIds, y \in ActionIds :
          /\ A # B /\ B # C /\ A # C
          /\ EpisodeIsChain(A, x, B, y, C)
          /\ NodeCount(nodes, B) = 1

\* ---------------------------------------------------------------- C5
\* avg_reward = total_reward / count, as an equation between exact fractions.
AvgIsMean(row) ==
    IF row.count > 0
    THEN /\ row.avg_reward.den # 0
         /\ row.avg_reward.num * row.count = row.total_reward * row.avg_reward.den
    ELSE /\ row.total_reward = 0
         /\ row.avg_reward.den # 0
         /\ row.avg_reward.num = 0

\* C5: in every reachable state every node and every edge with count > 0 has
\* avg_reward = total_reward / count, and every node and edge with count = 0
\* has total_reward = 0 and avg_reward = 0.
C5_AvgRewardIsMean ==
    /\ \A i \in DOMAIN nodes : AvgIsMean(nodes[i])
    /\ \A i \in DOMAIN edges : AvgIsMean(edges[i])

\* C5 witness: two episodes finalized with different outcomes, a node visited
\* twice within one episode and again in the other.
C5_Witness ==
    /\ Len(episodes) = 2
    /\ writes[1] > 0 /\ writes[2] > 0
    /\ episodes[1].outcome # episodes[2].outcome
    /\ \E i \in DOMAIN nodes : nodes[i].count >= 3 /\ nodes[i].total_reward # 0

\* ---------------------------------------------------------------- C6
\* Step rows reference existing node and edge rows, in the tables `t`.
StepsReferenceRows(t) ==
    \A i \in DOMAIN t.steps :
        /\ \E k \in DOMAIN t.nodes : t.nodes[k].id = t.steps[i].src_id
        /\ \E k \in DOMAIN t.nodes : t.nodes[k].id = t.steps[i].dst_id
        /\ \E k \in DOMAIN t.edges : /\ t.edges[k].src_id = t.steps[i].src_id
                                     /\ t.edges[k].action_id = t.steps[i].action_id
                                     /\ t.edges[k].dst_id = t.steps[i].dst_id

\* One row per node id and per edge triple, in the tables `t`.
NoDuplicateRows(t) ==
    /\ \A j, k \in DOMAIN t.nodes : t.nodes[j].id = t.nodes[k].id => j = k
    /\ \A j, k \in DOMAIN t.edges :
          ( /\ t.edges[j].src_id = t.edges[k].src_id
            /\ t.edges[j].action_id = t.edges[k].action_id
            /\ t.edges[j].dst_id = t.edges[k].dst_id ) => j = k

\* C6: in every reachable state, in the connection's view and in the committed
\* store, every step row has a node row for its src_id, a node row for its
\* dst_id and an edge row for its triple, and there is exactly one row per
\* node id and per edge triple (recording existing nodes or edges adds none).
C6_StepEndpointsExistOnce ==
    /\ StepsReferenceRows(Tables(episodes, sequences, steps, nodes, edges))
    /\ NoDuplicateRows(Tables(episodes, sequences, steps, nodes, edges))
    /\ StepsReferenceRows(disk)
    /\ NoDuplicateRows(disk)

\* C6 witness: the same step was recorded twice; its node and its edge exist
\* once.
C6_Witness ==
    /\ Len(steps) = 2
    /\ steps[1].src_id = steps[2].src_id
    /\ steps[1].action_id = steps[2].action_id
    /\ steps[1].dst_id = steps[2].dst_id
    /\ steps[1].src_id = steps[1].dst_id
    /\ Len(nodes) = 1 /\ Len(edges) = 1

\* ---------------------------------------------------------------- C7
\* The action ids of the steps recorded into the sequence `sequence_id`, in
\* recording (rowid) order.
RecordedActions(sequence_id) ==
    LET own == SelectSeq(steps, LAMBDA r : r.sequence_id = sequence_id)
    IN  [i \in DOMAIN own |-> own[i].action_id]

\* C7 as stated: the signature of every closed sequence is the hash of the
\* action ids of exactly the steps recorded between its opening and its
\* closing, in recording order, and none of those steps belongs to another
\* episode than the sequence.
C7_SignatureOfOwnStepsInOrder ==
    \A k \in DOMAIN sequences :
        sequences[k].signature # None =>
            /\ sequences[k].signature = signature_hash(RecordedActions(sequences[k].sequence_id))
            /\ \A i \in DOMAIN steps :
                  steps[i].sequence_id = sequences[k].sequence_id
                  => steps[i].episode_id = sequences[k].episode_id

\* ---------------------------------------------------------------- C8
\* C8 as stated: a record_step call that is interrupted before it returns
\* leaves the committed store as it was before the call (none of its node,
\* edge, sequence or step rows, no signature).
C8_InterruptedRecordStepCommitsNothing ==
    [][ last'.op = "record_step_interrupted" => disk' = disk ]_vars

\* ---------------------------------------------------------------- C9
\* C9 as stated: once finalize_episode has stored an episode's outcome, no
\* later operation changes that episode's outcome.
C9_OutcomeWrittenOnce ==
    [][ \A i \in DOMAIN episodes :
            writes[i] >= 1 => /\ i \in DOMAIN episodes'
                              /\ episodes'[i].outcome = episodes[i].outcome ]_vars

\* ---------------------------------------------------------------- C10
\* C10: a sequence row is created with a null signature and keeps it while the
\* sequence is the active one; the signature is written by the record_step
\* call that closes the sequence (the call whose step is the last of the
\* sequence, after which there is no active sequence); a row with a signature
\* is never changed or removed by any later operation.
C10_SignatureWrittenOnceAtClose ==
    [][ /\ \A k \in DOMAIN sequences :
              /\ k \in DOMAIN sequences'
              /\ sequences[k].signature # None => sequences'[k] = sequences[k]
        /\ \A k \in DOMAIN sequences' :
              LET was_null == k \notin DOMAIN sequences \/ sequences[k].signature = None
              IN  /\ (was_null /\ sequences'[k].signature # None) =>
                        /\ last'.op = "record_step"
                        /\ Len(steps') = Len(steps) + 1
                        /\ steps'[Len(steps')].sequence_id = sequences'[k].sequence_id
                        /\ current_sequence_id' = None
                  /\ sequences'[k].signature = None =>
                        current_sequence_id' = sequences'[k].sequence_id
      ]_vars

\* C10 witness: a closed sequence has gone through a later record_step that
\* closed another sequence with another signature, a start_new_episode and a
\* finalize_episode.
C10_Witness ==
    /\ Len(sequences) = 2
    /\ sequences[1].signature # None
    /\ sequences[2].signature # None
    /\ sequences[1].signature # sequences[2].signature
    /\ steps[2].episode_id # steps[1].episode_id
    /\ last.op = "finalize_episode"


\* The outcome column of the current episode's row.
CurrentOutcome(eps) ==
    LET i == CHOOSE i \in DOMAIN eps : eps[i].episode_id = current_episode_id
    IN eps[i].outcome

\* A step of the store that is a finalize_episode call on an episode that has
\* no step.
FinalizeWithoutSteps == last'.op = "finalize_episode" /\ EpisodeSteps = {}

\* C11: finalize_episode(outcome) on an episode with zero recorded steps stores
\* the outcome on the episode row and leaves every node and edge row (count,
\* total_reward, avg_reward) and all step and sequence rows unchanged.
C11_FinalizeWithoutStepsOnlyStoresOutcome ==
    [][ FinalizeWithoutSteps =>
          /\ CurrentOutcome(episodes') = last'.reward
          /\ nodes' = nodes
          /\ edges' = edges
          /\ steps' = steps
          /\ sequences' = sequences
      ]_vars

\* C11 witness: finalize_episode has just stored a non-zero outcome on an
\* episode without steps while rows of an earlier episode carry visits.
C11_Witness ==
    /\ last.op = "finalize_episode"
    /\ last.reward # 0
    /\ EpisodeSteps = {}
    /\ steps # << >>
    /\ CurrentOutcome(episodes) = last.reward
    /\ \E i \in DOMAIN nodes : nodes[i].count > 0
    /\ \E i \in DOMAIN edges : edges[i].count > 0


\* The signatures a sequence of at most MaxSteps recorded actions can carry.
Signatures ==
    UNION { { signature_hash(t) : t \in [1..n -> ActionIds] } : n \in 0..MaxSteps }

\* The sequence rows that carry signature sig.
Carrying(sig) == { k \in DOMAIN sequences : sequences[k].signature = sig }

\* The outcome of the episode that owns sequence row k.
OwnerOutcome(k) ==
    LET j == CHOOSE j \in DOMAIN episodes :
                episodes[j].episode_id = sequences[k].episode_id
    IN  episodes[j].outcome

\* C12: get_sequence_stats(sig) is absent exactly when no sequence row carries
\* sig; otherwise total is the number of sequences with that signature, wins
\* the number of those whose owning episode has outcome > 0, losses the number
\* with outcome < 0 (0 counts in neither, so wins + losses <= total); sequences
\* still in progress (null signature) are never counted.
C12_StatsCountSequencesBySignature ==
    /\ get_sequence_stats(None) = NoStats
    /\ \A sig \in Signatures :
          LET stats == get_sequence_stats(sig) IN
          /\ stats = NoStats <=> Carrying(sig) = {}
          /\ Carrying(sig) # {} =>
                /\ stats.total = Cardinality(Carrying(sig))
                /\ stats.wins = Cardinality({ k \in Carrying(sig) : OwnerOutcome(k) > 0 })
                /\ stats.losses = Cardinality({ k \in Carrying(sig) : OwnerOutcome(k) < 0 })
                /\ stats.wins + stats.losses <= stats.total

\* C12 witness: two sequences carry one signature, one in a won episode and
\* one in an episode whose outcome is 0.
C12_Witness ==
    \E sig \in Signatures :
        /\ get_sequence_stats(sig).found
        /\ get_sequence_stats(sig).total = 2
        /\ get_sequence_stats(sig).wins = 1
        /\ get_sequence_stats(sig).losses = 0


\* Within each episode the step_num values are 0, 1, 2, ... in recording
\* order: a step's number is the number of earlier steps of its episode.
StepNumsCountPerEpisode ==
    \A i \in DOMAIN steps :
        steps[i].step_num =
            Cardinality({ j \in 1..(i - 1) : steps[j].episode_id = steps[i].episode_id })

\* Ordering the steps of any one sequence by step_num reproduces their
\* recording order.
StepNumOrdersEverySequence ==
    \A i, j \in DOMAIN steps :
        (i < j /\ steps[i].sequence_id = steps[j].sequence_id)
        => steps[i].step_num < steps[j].step_num

\* C15: within each episode the step_num values of its steps are 0, 1, 2, ...
\* in recording order (restarting at 0 after start_new_episode), and ordering
\* the steps of any one sequence by step_num reproduces their recording order.
C15_StepNumsFollowRecordingOrder ==
    StepNumsCountPerEpisode /\ StepNumOrdersEverySequence


\* An aggregate row that has not been visited: 0 / 0.0 / 0.0.
FreshAggregate(row) ==
    row.count = 0 /\ row.total_reward = 0 /\ row.avg_reward = RealZero

\* Table t2 keeps every row of t unchanged and adds only fresh rows.
OnlyFreshRowsAdded(t, t2) ==
    /\ Len(t2) >= Len(t)
    /\ \A i \in DOMAIN t : t2[i] = t[i]
    /\ \A i \in (Len(t) + 1)..Len(t2) : FreshAggregate(t2[i])

\* C17: node and edge aggregates change only in finalize_episode: every other
\* operation (start_new_episode, record_step) leaves the count, total_reward
\* and avg_reward of every existing node and edge unchanged and creates rows
\* with 0 / 0.0 / 0.0; no operation deletes a node, edge or step row, and no
\* operation modifies an existing step row.
C17_AggregatesChangeOnlyInFinalize ==
    [][ /\ last'.op # "finalize_episode" =>
              OnlyFreshRowsAdded(nodes, nodes') /\ OnlyFreshRowsAdded(edges, edges')
        /\ Len(nodes') >= Len(nodes)
        /\ \A i \in DOMAIN nodes : nodes'[i].id = nodes[i].id
        /\ Len(edges') >= Len(edges)
        /\ \A i \in DOMAIN edges :
              /\ edges'[i].src_id = edges[i].src_id
              /\ edges'[i].action_id = edges[i].action_id
              /\ edges'[i].dst_id = edges[i].dst_id
        /\ Len(steps') >= Len(steps)
        /\ \A i \in DOMAIN steps : steps'[i] = steps[i]
      ]_vars

\* C17 witness: record_step has just run in a store that holds an edge and a
\* node with visits from a finalized episode next to a fresh edge.
C17_Witness ==
    /\ last.op = "record_step"
    /\ Len(steps) = 2
    /\ \E i \in DOMAIN nodes : nodes[i].count > 0
    /\ \E i \in DOMAIN edges : edges[i].count > 0
    /\ \E i \in DOMAIN edges : FreshAggregate(edges[i])


\* The number after the first `CHOICE:` match of the response (there is one).
FirstChoiceNumber(response) ==
    ChoiceValue(response, Min(ChoiceMatches(response)))

\* The bare integers of the response that are valid indexes, by position.
BareIndexes(response, n) ==
    { i \in BareIntegerStarts(response) :
        ParseInt(response, i, DigitRunEnd(response, i)) \in 0..(n - 1) }

\* C14: _parse_choice(response, n) with n >= 1 always returns an index in
\* [0, n): the number after the first `CHOICE:` match when that number is in
\* range; otherwise the last bare integer of the response that is in range;
\* otherwise 0. `CHOICE: 2` with n = 5 gives 2, and a response whose only
\* integer is 7 with n = 5 gives 0.
C14_ParseChoiceReturnsValidIndex ==
    thinker.pc = "parsed" =>
        LET response == thinker.response
            n == thinker.num_choices
            byChoice == /\ ChoiceMatches(response) # {}
                        /\ FirstChoiceNumber(response) \in 0..(n - 1)
            lastBare == Max(BareIndexes(response, n))
        IN  /\ thinker.result \in 0..(n - 1)
            /\ byChoice => thinker.result = FirstChoiceNumber(response)
            /\ (~ byChoice /\ BareIndexes(response, n) # {}) =>
                  thinker.result = ParseInt(response, lastBare,
                                            DigitRunEnd(response, lastBare))
            /\ (~ byChoice /\ BareIndexes(response, n) = {}) => thinker.result = 0
            /\ (response = << "CHOICE:", " ", "2" >> /\ n = 5) => thinker.result = 2
            /\ (response = << "x", " ", "7" >> /\ n = 5) => thinker.result = 0

\* C14 witness: the first `CHOICE:` number is out of range, a later one is in
\* range, and the index returned is the last bare integer in range.
C14_Witness ==
    /\ thinker.pc = "parsed"
    /\ Cardinality(ChoiceMatches(thinker.response)) = 1
    /\ FirstChoiceNumber(thinker.response) >= thinker.num_choices
    /\ Cardinality(BareIndexes(thinker.response, thinker.num_choices)) = 1
    /\ thinker.result > 0


C16_ReturnsEnumeratedCandidate ==
    thinker.pc = "returned" => thinker.result \in Enumerated(thinker.legal_sequences)

\* The response holds no valid index: the first `CHOICE:` number, if any, is
\* out of range and no bare integer is in range.
NoValidIndex(response, n) ==
    /\ ChoiceMatches(response) # {} => FirstChoiceNumber(response) \notin 0..(n - 1)
    /\ BareIndexes(response, n) = {}

\* llm.invoke returned a response that holds no valid index.
UnparsedResponse ==
    /\ thinker.pc \in { "called", "returned" }
    /\ ~ thinker.llm.raises
    /\ NoValidIndex(thinker.llm.text, thinker.legal_sequences)

\* C20 as stated: when the response contains no valid in-range index,
\* choose_sequence selects at random among the candidates, so every supplied
\* candidate is a possible result.
C20_EveryCandidatePossibleWhenUnparsed ==
    (thinker.pc = "called" /\ UnparsedResponse) =>
        \A i \in 0..(thinker.legal_sequences - 1) :
            ENABLED (ChooseSequence /\ thinker'.result = i)

\* C20 as amended: when the response contains no valid in-range index,
\* choose_sequence returns the candidate at index 0.
C20_FirstCandidateWhenUnparsed ==
    (thinker.pc = "returned" /\ UnparsedResponse) => thinker.result = 0

\* C20 witness: a non-empty response without a valid index, several
\* candidates, and the first one returned.
C20_Witness ==
    /\ thinker.pc = "returned"
    /\ UnparsedResponse
    /\ BareIntegerStarts(thinker.llm.text) # {}
    /\ thinker.legal_sequences > 1
    /\ thinker.result = 0


\* The loop iterations in which player had priority, and those of them whose
\* action the engine accepted.
TurnsOf(player) == { i \in DOMAIN game.turns : game.turns[i].player = player }

AcceptedTurns(player) == { i \in TurnsOf(player) : game.turns[i].legal }

LaterTurns(player, i) == { j \in TurnsOf(player) : j > i }

\* The phase observed when player next had priority after iteration i, or
\* the final game phase when the game ended first.
ObservedDestination(player, i) ==
    IF LaterTurns(player, i) # {}
    THEN game.turns[Min(LaterTurns(player, i))].phase
    ELSE game.game_phase

\* The accepted actions whose destination has been observed: all of them once
\* the final pending steps are recorded, before that those followed by a later
\* turn of the player.
Due(player) ==
    IF game.pc \in { "recorded", "finalized" }
    THEN AcceptedTurns(player)
    ELSE { i \in AcceptedTurns(player) : LaterTurns(player, i) # {} }

\* C18: in the driving loop every action the engine accepts is recorded as
\* exactly one Step in the acting player's store, with the destination
\* observed when that player next has priority or the final game phase at game
\* end; every rejected action is recorded as no Step; and all pending steps of
\* a player are recorded before finalize_episode is called on that player's
\* store.
C18_AcceptedActionsRecordedOnce ==
    game.pc # "none" =>
        \A player \in Players :
            /\ Len(game.recorded[player]) = Cardinality(Due(player))
            /\ \A i \in Due(player) :
                  game.recorded[player][Cardinality({ j \in Due(player) : j <= i })]
                  = [src_id |-> game.turns[i].phase,
                     action_id |-> game.turns[i].action_id,
                     dst_id |-> ObservedDestination(player, i)]
            /\ game.finalized[player] # << >> =>
                  Len(game.recorded[player]) = Cardinality(AcceptedTurns(player))

\* C18 witness: the game is finalized; one player had an action accepted and
\* recorded at its next turn, an action rejected, and an action accepted last
\* and recorded at game end.
C18_Witness ==
    /\ game.pc = "finalized"
    /\ \E player \in Players :
          /\ Cardinality(AcceptedTurns(player)) = 2
          /\ TurnsOf(player) \ AcceptedTurns(player) # {}
          /\ Len(game.recorded[player]) = 2
          /\ game.recorded[player][1].dst_id # game.recorded[player][2].dst_id
          /\ game.finalized[player] # << >>

\* The iterations in which an action taken from a candidate sequence was
\* rejected by the engine.
RejectedSequenceTurns ==
    { i \in DOMAIN game.turns :
        ~ game.turns[i].legal /\ game.turns[i].source \in { "chosen", "continued" } }

\* C19 as stated: after the engine rejects an action taken from a player's
\* candidate sequence, that player's following actions are chosen by
\* single-action (non-sequence) play.
C19_SingleActionPlayAfterRejection ==
    game.pc # "none" =>
        \A i \in RejectedSequenceTurns :
            \A j \in LaterTurns(game.turns[i].player, i) :
                game.turns[j].source = "random"

\* C19 as amended: after the engine rejects an action taken from a player's
\* candidate sequence, the rest of that sequence is discarded: the player has
\* no active sequence, and the player's next action is no further step of it
\* (it is the first step of a newly chosen sequence, or a random action when
\* no sequence is legal).
C19_RejectionAbandonsSequence ==
    game.pc # "none" =>
        \A i \in RejectedSequenceTurns :
            LET player == game.turns[i].player IN
            IF LaterTurns(player, i) = {}
            THEN game.active_sequences[player] = << >>
            ELSE game.turns[Min(LaterTurns(player, i))].source \in { "chosen", "random" }

\* C19 witness: a step of a sequence in progress was rejected and the same
\* player's next action started a newly chosen sequence.
C19_Witness ==
    /\ game.pc # "none"
    /\ \E i \in RejectedSequenceTurns :
          /\ game.turns[i].source = "continued"
          /\ LaterTurns(game.turns[i].player, i) # {}
          /\ game.turns[Min(LaterTurns(game.turns[i].player, i))].source = "chosen"


\* C21: in every reachable store state every step row's episode_id equals the
\* episode_id of the sequence row it belongs to: a sequence never contains
\* steps of two different episodes, across any interleaving of
\* start_new_episode, record_step and finalize_episode.
C21_StepsShareEpisodeOfTheirSequence ==
    /\ \A i \in DOMAIN steps :
          \A k \in DOMAIN sequences :
              sequences[k].sequence_id = steps[i].sequence_id
              => steps[i].episode_id = sequences[k].episode_id
    /\ \A i, j \in DOMAIN steps :
          steps[i].sequence_id = steps[j].sequence_id
          => steps[i].episode_id = steps[j].episode_id

\* The sequence rows whose signature is null.
OpenSequences == { k \in DOMAIN sequences : sequences[k].signature = None }

\* At most one sequence row has a null signature, and it is the one
\* current_sequence_id names; with no current sequence none has.
OnlyCurrentSequenceIsOpen ==
    /\ Cardinality(OpenSequences) <= 1
    /\ \A k \in OpenSequences : sequences[k].sequence_id = current_sequence_id
    /\ current_sequence_id = None => OpenSequences = {}

\* Every sequence row, open or closed, owns at least one step.
EverySequenceOwnsAStep ==
    \A k \in DOMAIN sequences :
        \E i \in DOMAIN steps : steps[i].sequence_id = sequences[k].sequence_id

\* C22: for one store instance, in every state between operations at most one
\* sequence row has a null signature, and if one exists it is the sequence
\* identified by current_sequence_id; when current_sequence_id is None every
\* sequence row has a non-null signature; and every sequence row (open or
\* closed) owns at least one step.
C22_OneOpenSequenceAndNoEmptySequence ==
    OnlyCurrentSequenceIsOpen /\ EverySequenceOwnsAStep

\* The same for the states in which no operation of the store has failed.
C22_WhileNoOperationFailed ==
    status = "running" => C22_OneOpenSequenceAndNoEmptySequence

====
